---- MODULE Spec2Model ----
(***************************************************************************)
(* Model of the task repository and query engine of mcp-todo               *)
(* (src/src/mcp_server_todo/service.py).                                   *)
(*                                                                         *)
(* The data file is the variable `store`, the sequence of task records in  *)
(* file order.  Every public operation of service.py is one action: a      *)
(* complete load -> compute -> (optionally) save cycle.  `call` records    *)
(* the most recent call: its request, what it returned or raised, and      *)
(* whether save_tasks ran.  `assigned` is a history variable: the ids that *)
(* create_task has handed out so far.  `reply` is what the protocol        *)
(* server's call_tool handler (src/src/mcp_server_todo/mcp_server.py) gave *)
(* back for the most recent tool call.  `proc` holds, for each of two      *)
(* client processes that run the mutating operations step by step, its     *)
(* position in the operation and its local task list.                      *)
(*                                                                         *)
(* Python's Optional values are sequences of length <= 1: None is <<>>,    *)
(* a present value x is <<x>>.  Text that is searched by character (name,  *)
(* desc, keyword) is a sequence of one-character strings.  A due_date      *)
(* string "Y-M-D" is the tuple <<Y, M, D>> of its numeric fields, and the  *)
(* empty string is the empty tuple.                                        *)
(***************************************************************************)
EXTENDS Integers, Sequences, FiniteSets, TLC

VARIABLES store, call, assigned, reply, proc

vars == <<store, call, assigned, reply, proc>>

\* ------------------------------------------------------------------ bounds
\* Largest id create_task may hand out in the explored runs.
MaxId == 3
\* Largest number of tasks in the data file in the explored runs.
MaxTasks == 2
\* Largest number of operations one client process starts in the explored runs.
MaxCalls == 1

\* ---------------------------------------------------------------- options
None == <<>>
Some(x) == <<x>>

\* Python truthiness of an Optional[str] held as a TLA+ string: None and ""
\* are false.
TruthyStr(o) == o # None /\ o[1] # ""

\* Python truthiness of an Optional list / character sequence / due_date
\* tuple: None and the empty sequence are false.
TruthySeq(o) == o # None /\ o[1] # <<>>

\* ------------------------------------------------------------ record store
load_tasks == store

\* max([t.id for t in tasks], default=0)
RECURSIVE max_id(_)
max_id(tasks) ==
    IF tasks = <<>> THEN 0
    ELSE LET m == max_id(Tail(tasks))
         IN  IF Head(tasks).id > m THEN Head(tasks).id ELSE m

\* mutant: counts the tasks instead of taking the largest id
next_id_mut_count(tasks) == Len(tasks) + 1

next_id(tasks) == max_id(tasks) + 1

\* ----------------------------------------------------------- task building
\* mutant: the new task does not carry the tags of the request
Task_mut_no_tags(id, data, ts) ==
    [ id           |-> id,
      name         |-> data.name,
      desc         |-> data.desc,
      tags         |-> None,
      due_date     |-> data.due_date,
      priority     |-> data.priority,
      status       |-> "active",
      created_at   |-> ts,
      completed_at |-> None ]

Task(id, data, ts) ==
    [ id           |-> id,
      name         |-> data.name,
      desc         |-> data.desc,
      tags         |-> data.tags,
      due_date     |-> data.due_date,
      priority     |-> data.priority,
      status       |-> "active",
      created_at   |-> ts,
      completed_at |-> None ]

\* next((t for t in tasks if t.id == task_id), None), as an index (0 = None)
RECURSIVE find_from(_, _, _)
find_from(tasks, task_id, i) ==
    IF i > Len(tasks) THEN 0
    ELSE IF tasks[i].id = task_id THEN i
    ELSE find_from(tasks, task_id, i + 1)

\* mutant: falls back to the last task when no id matches
find_task_mut_last(tasks, task_id) ==
    IF find_from(tasks, task_id, 1) = 0 THEN Len(tasks) ELSE find_from(tasks, task_id, 1)

find_task(tasks, task_id) == find_from(tasks, task_id, 1)

\* mutant: a full replace, absent optional fields overwrite the task's
apply_update_mut_replace(task, data, ts) ==
    [ id           |-> task.id,
      name         |-> IF data.name # None THEN data.name[1] ELSE task.name,
      desc         |-> data.desc,
      tags         |-> data.tags,
      due_date     |-> data.due_date,
      priority     |-> data.priority,
      status       |-> IF data.status # None THEN data.status[1] ELSE task.status,
      created_at   |-> task.created_at,
      completed_at |-> IF data.status # None /\ data.status[1] = "completed"
                          /\ task.status # "completed"
                       THEN Some(ts) ELSE task.completed_at ]

\* mutant: stamps completed_at on every update to completed
apply_update_mut_restamp(task, data, ts) ==
    [ id           |-> task.id,
      name         |-> IF data.name # None THEN data.name[1] ELSE task.name,
      desc         |-> IF data.desc # None THEN data.desc ELSE task.desc,
      tags         |-> IF data.tags # None THEN data.tags ELSE task.tags,
      due_date     |-> IF data.due_date # None THEN data.due_date ELSE task.due_date,
      priority     |-> IF data.priority # None THEN data.priority ELSE task.priority,
      status       |-> IF data.status # None THEN data.status[1] ELSE task.status,
      created_at   |-> task.created_at,
      completed_at |-> IF data.status # None /\ data.status[1] = "completed"
                       THEN Some(ts) ELSE task.completed_at ]

\* mutant: clears completed_at when the status moves away from completed
apply_update_mut_clear(task, data, ts) ==
    [ id           |-> task.id,
      name         |-> IF data.name # None THEN data.name[1] ELSE task.name,
      desc         |-> IF data.desc # None THEN data.desc ELSE task.desc,
      tags         |-> IF data.tags # None THEN data.tags ELSE task.tags,
      due_date     |-> IF data.due_date # None THEN data.due_date ELSE task.due_date,
      priority     |-> IF data.priority # None THEN data.priority ELSE task.priority,
      status       |-> IF data.status # None THEN data.status[1] ELSE task.status,
      created_at   |-> task.created_at,
      completed_at |-> IF data.status = None THEN task.completed_at
                       ELSE IF data.status[1] # "completed" THEN None
                       ELSE IF task.status # "completed" THEN Some(ts)
                       ELSE task.completed_at ]

\* mutant: never stamps completed_at
apply_update_mut_nostamp(task, data, ts) ==
    [ id           |-> task.id,
      name         |-> IF data.name # None THEN data.name[1] ELSE task.name,
      desc         |-> IF data.desc # None THEN data.desc ELSE task.desc,
      tags         |-> IF data.tags # None THEN data.tags ELSE task.tags,
      due_date     |-> IF data.due_date # None THEN data.due_date ELSE task.due_date,
      priority     |-> IF data.priority # None THEN data.priority ELSE task.priority,
      status       |-> IF data.status # None THEN data.status[1] ELSE task.status,
      created_at   |-> task.created_at,
      completed_at |-> task.completed_at ]

\* The field assignments of update_task, lines 113-127.
apply_update(task, data, ts) ==
    [ id           |-> task.id,
      name         |-> IF data.name # None THEN data.name[1] ELSE task.name,
      desc         |-> IF data.desc # None THEN data.desc ELSE task.desc,
      tags         |-> IF data.tags # None THEN data.tags ELSE task.tags,
      due_date     |-> IF data.due_date # None THEN data.due_date ELSE task.due_date,
      priority     |-> IF data.priority # None THEN data.priority ELSE task.priority,
      status       |-> IF data.status # None THEN data.status[1] ELSE task.status,
      created_at   |-> task.created_at,
      completed_at |-> IF data.status # None /\ data.status[1] = "completed"
                          /\ task.status # "completed"
                       THEN Some(ts) ELSE task.completed_at ]

\* mutant: drops the last task when no id matches
filtered_tasks_mut_pop(tasks, task_id) ==
    IF \E i \in 1 .. Len(tasks) : tasks[i].id = task_id
    THEN SelectSeq(tasks, LAMBDA t : t.id # task_id)
    ELSE SubSeq(tasks, 1, Len(tasks) - 1)

\* mutant: keeps only the tasks in front of the deleted one
filtered_tasks_mut_truncate(tasks, task_id) == SelectSeq(tasks, LAMBDA t : t.id < task_id)

\* [t for t in tasks if t.id != task_id]
filtered_tasks(tasks, task_id) == SelectSeq(tasks, LAMBDA t : t.id # task_id)

\* ------------------------------------------------------------------- dates
\* datetime.date arithmetic; a date is <<year, month, day>>.
IsLeap(y) == (y % 4 = 0) /\ ((y % 100 # 0) \/ (y % 400 = 0))

DaysInMonth(y, m) ==
    IF m = 2 THEN (IF IsLeap(y) THEN 29 ELSE 28)
    ELSE IF m \in {4, 6, 9, 11} THEN 30 ELSE 31

RECURSIVE DaysBeforeMonth(_, _)
DaysBeforeMonth(y, m) ==
    IF m = 1 THEN 0 ELSE DaysBeforeMonth(y, m - 1) + DaysInMonth(y, m - 1)

DaysBeforeYear(y) ==
    (y - 1) * 365 + ((y - 1) \div 4) - ((y - 1) \div 100) + ((y - 1) \div 400)

\* date.toordinal()
Ordinal(date) == DaysBeforeYear(date[1]) + DaysBeforeMonth(date[1], date[2]) + date[3]

\* The years dates are converted back from ordinals in.
Years == 2023 .. 2026

\* date.fromordinal(n)
FromOrdinal(n) ==
    LET y == CHOOSE yy \in Years : DaysBeforeYear(yy) < n /\ n <= DaysBeforeYear(yy + 1)
        r == n - DaysBeforeYear(y)
        m == CHOOSE mm \in 1 .. 12 :
                 DaysBeforeMonth(y, mm) < r /\ r <= DaysBeforeMonth(y, mm) + DaysInMonth(y, mm)
    IN  <<y, m, r - DaysBeforeMonth(y, m)>>

\* date + timedelta(days=n)
AddDays(date, n) == FromOrdinal(Ordinal(date) + n)

\* datetime.strptime(s, "%Y-%m-%d") succeeds
ValidDate(s) ==
    /\ Len(s) = 3
    /\ s[1] \in 1 .. 9999
    /\ s[2] \in 1 .. 12
    /\ s[3] \in 1 .. DaysInMonth(s[1], s[2])

\* datetime.max as a sort key: later than every date
DateTimeMax == Ordinal(<<9999, 12, 31>>) + 1

\* -------------------------------------------------------------------- text
\* str.lower() on the characters the model uses
LowerChar(c) == IF c = "A" THEN "a" ELSE IF c = "B" THEN "b" ELSE c

Lower(s) == [i \in 1 .. Len(s) |-> LowerChar(s[i])]

\* k in s
IsSubstring(k, s) ==
    \E i \in 0 .. (Len(s) - Len(k)) : SubSeq(s, i + 1, i + Len(k)) = k

\* x in list
InList(x, list) == \E i \in 1 .. Len(list) : list[i] = x

\* ------------------------------------------------------------ query engine
DefaultLimit == 10

ListTasks(keyword, tags, priority, status, range, orderby, limit) ==
    [ keyword |-> keyword, tags |-> tags, priority |-> priority, status |-> status,
      range |-> range, orderby |-> orderby, limit |-> limit ]

\* line 146: filters.status or "active"
status_filter(filters) == IF TruthyStr(filters.status) THEN filters.status[1] ELSE "active"

\* mutant: no status filter when the request has none
keep_status_mut_nodefault(t, filters) ==
    filters.status = None \/ t.status = filters.status[1]

\* line 147: t.status == status
keep_status(t, filters) == t.status = status_filter(filters)

\* lines 147-157: status, priority, tags and keyword filters
basic_filters(tasks, filters) ==
    LET t1 == SelectSeq(tasks, LAMBDA t : keep_status(t, filters))
        t2 == IF TruthyStr(filters.priority)
              THEN SelectSeq(t1, LAMBDA t : t.priority = filters.priority)
              ELSE t1
        t3 == IF TruthySeq(filters.tags)
              THEN SelectSeq(t2, LAMBDA t :
                       /\ TruthySeq(t.tags)
                       /\ \E k \in 1 .. Len(filters.tags[1]) :
                              InList(filters.tags[1][k], t.tags[1]))
              ELSE t2
        keyword == Lower(filters.keyword[1])
    IN  IF TruthySeq(filters.keyword)
        THEN SelectSeq(t3, LAMBDA t :
                 \/ IsSubstring(keyword, Lower(t.name))
                 \/ (TruthySeq(t.desc) /\ IsSubstring(keyword, Lower(t.desc[1]))))
        ELSE t3

\* line 176 / 180: (today.replace(day=1) + timedelta(days=32)).replace(day=1)
first_of_next_month(today) ==
    LET d == AddDays(<<today[1], today[2], 1>>, 32) IN <<d[1], d[2], 1>>

\* mutant: the week window is one day too long
in_range_mut_week8(range, due, today) ==
    LET d == Ordinal(due)
    IN  CASE range = "day"   -> d = Ordinal(today)
          [] range = "week"  -> Ordinal(today) + 1 <= d /\ d <= Ordinal(today) + 8
          [] range = "month" -> /\ Ordinal(today) + 8 <= d
                                /\ d <= Ordinal(first_of_next_month(today)) - 1
          [] range = "year"  -> /\ Ordinal(first_of_next_month(today)) <= d
                                /\ d <= Ordinal(<<today[1], 12, 31>>)
          [] OTHER           -> TRUE

\* lines 164-182: does the bucket `range` keep a task due on date `due`
in_range(range, due, today) ==
    LET d == Ordinal(due)
    IN  CASE range = "day"   -> d = Ordinal(today)
          [] range = "week"  -> Ordinal(today) + 1 <= d /\ d <= Ordinal(today) + 7
          [] range = "month" -> /\ Ordinal(today) + 8 <= d
                                /\ d <= Ordinal(first_of_next_month(today)) - 1
          [] range = "year"  -> /\ Ordinal(first_of_next_month(today)) <= d
                                /\ d <= Ordinal(<<today[1], 12, 31>>)
          [] OTHER           -> TRUE

\* lines 160-182: the tasks the range filter keeps
range_filter(tasks, range, today) ==
    LET dated == SelectSeq(tasks, LAMBDA t : TruthySeq(t.due_date))
    IN  IF range = "all" THEN dated
        ELSE SelectSeq(dated, LAMBDA t : in_range(range, t.due_date[1], today))

\* the range filter parses every remaining due date unless the range is "all"
range_raises(tasks, range) ==
    /\ range # "all"
    /\ \E i \in 1 .. Len(tasks) :
           TruthySeq(tasks[i].due_date) /\ ~ValidDate(tasks[i].due_date[1])

\* line 191
priority_order(p) ==
    IF p = None THEN 3
    ELSE CASE p[1] = "high"   -> 0
           [] p[1] = "medium" -> 1
           [] p[1] = "low"    -> 2
           [] p[1] = "none"   -> 3
           [] OTHER           -> -1

\* lines 185-194: the sort key of a task
sort_key(t, orderby) ==
    CASE orderby = "due-date" ->
             IF TruthySeq(t.due_date) THEN Ordinal(t.due_date[1]) ELSE DateTimeMax
      [] orderby = "priority" -> priority_order(t.priority)
      [] OTHER                -> t.id

\* computing the keys raises: strptime ValueError or priority_order KeyError
sort_raises(tasks, orderby) ==
    IF orderby = "due-date"
    THEN IF \E i \in 1 .. Len(tasks) :
                TruthySeq(tasks[i].due_date) /\ ~ValidDate(tasks[i].due_date[1])
         THEN "ValueError" ELSE ""
    ELSE IF orderby = "priority"
    THEN IF \E i \in 1 .. Len(tasks) : priority_order(tasks[i].priority) = -1
         THEN "KeyError" ELSE ""
    ELSE ""

\* mutant: an unstable sort, a task goes in front of the tasks with an equal key
RECURSIVE insert_sorted_mut_unstable(_, _, _)
insert_sorted_mut_unstable(sorted, t, orderby) ==
    IF sorted = <<>> THEN <<t>>
    ELSE IF sort_key(Head(sorted), orderby) < sort_key(t, orderby)
    THEN <<Head(sorted)>> \o insert_sorted_mut_unstable(Tail(sorted), t, orderby)
    ELSE <<t>> \o sorted

\* list.sort(key=...) is stable: a task goes behind every task already
\* placed whose key is not larger
RECURSIVE insert_sorted(_, _, _)
insert_sorted(sorted, t, orderby) ==
    IF sorted = <<>> THEN <<t>>
    ELSE IF sort_key(Head(sorted), orderby) <= sort_key(t, orderby)
    THEN <<Head(sorted)>> \o insert_sorted(Tail(sorted), t, orderby)
    ELSE <<t>> \o sorted

\* lines 185-194: tasks.sort(key=...) for the requested orderby
RECURSIVE sort_tasks(_, _)
sort_tasks(tasks, orderby) ==
    IF tasks = <<>> THEN <<>>
    ELSE insert_sorted(sort_tasks(SubSeq(tasks, 1, Len(tasks) - 1), orderby),
                       tasks[Len(tasks)], orderby)

\* tasks[:limit]
slice_to(tasks, limit) ==
    LET n == Len(tasks)
    IN  IF limit >= 0
        THEN SubSeq(tasks, 1, IF limit < n THEN limit ELSE n)
        ELSE SubSeq(tasks, 1, IF n + limit > 0 THEN n + limit ELSE 0)

\* lines 196-197
apply_limit(tasks, filters) ==
    LET limit == IF filters.limit # None /\ filters.limit[1] # 0
                 THEN filters.limit[1] ELSE DefaultLimit
    IN  slice_to(tasks, limit)

\* mutant: truncates the filtered tasks before sorting them
list_result_mut_limit_first(tasks, filters, today) ==
    LET basic  == basic_filters(tasks, filters)
        ranged == IF TruthyStr(filters.range)
                  THEN range_filter(basic, filters.range[1], today)
                  ELSE basic
        exc    == sort_raises(ranged, filters.orderby)
    IN  IF TruthyStr(filters.range) /\ range_raises(basic, filters.range[1])
        THEN [raised |-> "ValueError", ret |-> <<>>]
        ELSE IF exc # ""
        THEN [raised |-> exc, ret |-> <<>>]
        ELSE [raised |-> "", ret |-> sort_tasks(apply_limit(ranged, filters), filters.orderby)]

\* list_tasks as a function of the loaded tasks, the filters and today's
\* date: what it returns, or the exception it raises.
list_result(tasks, filters, today) ==
    LET basic  == basic_filters(tasks, filters)
        ranged == IF TruthyStr(filters.range)
                  THEN range_filter(basic, filters.range[1], today)
                  ELSE basic
        exc    == sort_raises(ranged, filters.orderby)
    IN  IF TruthyStr(filters.range) /\ range_raises(basic, filters.range[1])
        THEN [raised |-> "ValueError", ret |-> <<>>]
        ELSE IF exc # ""
        THEN [raised |-> exc, ret |-> <<>>]
        ELSE [raised |-> "", ret |-> apply_limit(sort_tasks(ranged, filters.orderby), filters)]

\* ---------------------------------------------------------------- requests
CreateTask(name, desc, tags, due_date, priority) ==
    [ name |-> name, desc |-> desc, tags |-> tags, due_date |-> due_date,
      priority |-> priority ]

UpdateTask(id, name, desc, tags, due_date, priority, status) ==
    [ id |-> id, name |-> name, desc |-> desc, tags |-> tags,
      due_date |-> due_date, priority |-> priority, status |-> status ]

\* ----------------------------------------------------------------- actions
Returned(op, req, ret, ok, wrote) ==
    [ op |-> op, req |-> req, ret |-> ret, ok |-> ok, raised |-> "", wrote |-> wrote ]

Raised(op, req, exc) ==
    [ op |-> op, req |-> req, ret |-> <<>>, ok |-> FALSE, raised |-> exc, wrote |-> FALSE ]

create_task(data, ts) ==
    LET id    == next_id(load_tasks)
        task  == Task(id, data, ts)
        tasks == Append(load_tasks, task)
    IN  /\ id <= MaxId
        /\ Len(load_tasks) < MaxTasks
        /\ store' = tasks
        /\ call' = Returned("create", data, <<task>>, TRUE, TRUE)
        /\ assigned' = assigned \cup {id}

get_task(task_id) ==
    LET tasks == load_tasks
        i     == find_task(tasks, task_id)
    IN  /\ call' = Returned("get", [id |-> task_id],
                            IF i = 0 THEN <<>> ELSE <<tasks[i]>>, i # 0, FALSE)
        /\ UNCHANGED <<store, assigned>>

update_task(data, ts) ==
    LET tasks == load_tasks
        i     == find_task(tasks, data.id)
    IN  IF i = 0
        THEN /\ call' = Raised("update", data, "ValueError")
             /\ UNCHANGED <<store, assigned>>
        ELSE LET task == apply_update(tasks[i], data, ts)
             IN  /\ store' = [tasks EXCEPT ![i] = task]
                 /\ call' = Returned("update", data, <<task>>, TRUE, TRUE)
                 /\ UNCHANGED assigned

delete_task(task_id) ==
    LET tasks    == load_tasks
        filtered == filtered_tasks(tasks, task_id)
    IN  IF Len(filtered) = Len(tasks)
        THEN /\ call' = Returned("delete", [id |-> task_id], <<>>, FALSE, FALSE)
             /\ UNCHANGED <<store, assigned>>
        ELSE /\ store' = filtered
             /\ call' = Returned("delete", [id |-> task_id], <<>>, TRUE, TRUE)
             /\ UNCHANGED assigned

list_tasks(filters, today) ==
    LET r == list_result(load_tasks, filters, today)
    IN  /\ call' = [ op |-> "list", req |-> filters, ret |-> r.ret, ok |-> r.raised = "",
                      raised |-> r.raised, wrote |-> FALSE, today |-> today ]
        /\ UNCHANGED <<store, assigned>>

\* --------------------------------------------------------- protocol server
\* mcp_server.py.  The arguments of a tool call are a dict, here a record
\* whose fields are the keys present.  The text of a reply is a tuple of
\* its parts.
NoReply == [kind |-> "none", name |-> "", arguments |-> [id |-> 0], text |-> <<>>]

\* the handler returned [TextContent(type="text", text=...)]
TextContent(name, arguments, text) ==
    [kind |-> "text", name |-> name, arguments |-> arguments, text |-> text]

\* an exception left the handler
Escaped(name, arguments, exc) ==
    [kind |-> "escaped", name |-> name, arguments |-> arguments, text |-> <<exc>>]

\* Model(**arguments): a field whose key is absent takes its default None
Opt(arguments, k) == IF k \in DOMAIN arguments THEN Some(arguments[k]) ELSE None

\* pydantic validation: required fields are present, Literal fields hold one
\* of their values; keys that are not fields are ignored
valid_CreateTask(arguments) == "name" \in DOMAIN arguments

valid_id(arguments) == "id" \in DOMAIN arguments

valid_ListTasks(arguments) ==
    /\ "range" \in DOMAIN arguments => arguments.range \in {"all", "day", "week", "month", "year"}
    /\ "orderby" \in DOMAIN arguments => arguments.orderby \in {"due-date", "priority", "id"}

build_CreateTask(arguments) ==
    CreateTask(arguments.name, Opt(arguments, "desc"), Opt(arguments, "tags"),
               Opt(arguments, "due_date"), Opt(arguments, "priority"))

build_UpdateTask(arguments) ==
    UpdateTask(arguments.id, Opt(arguments, "name"), Opt(arguments, "desc"),
               Opt(arguments, "tags"), Opt(arguments, "due_date"),
               Opt(arguments, "priority"), Opt(arguments, "status"))

build_ListTasks(arguments) ==
    ListTasks(Opt(arguments, "keyword"), Opt(arguments, "tags"), Opt(arguments, "priority"),
              Opt(arguments, "status"), Opt(arguments, "range"),
              IF "orderby" \in DOMAIN arguments THEN arguments.orderby ELSE "due-date",
              IF "limit" \in DOMAIN arguments THEN Some(arguments.limit) ELSE Some(DefaultLimit))

\* mutant: the handler catches ValueError only
catches_mut_value_only(exc) == exc = "ValueError"

\* line 115, except Exception: every exception the tools raise is caught
catches(exc) == TRUE

\* lines 115-120: what the handler does with an exception raised in its body
handled(name, arguments, exc) ==
    IF catches(exc)
    THEN TextContent(name, arguments, <<"Error: ", exc>>)
    ELSE Escaped(name, arguments, exc)

\* lines 68-120
call_tool(name, arguments, ts, today) ==
    LET invalid == /\ reply' = handled(name, arguments, "ValidationError")
                   /\ UNCHANGED <<store, call, assigned>>
    IN  CASE name = "task_create" ->
                 IF ~valid_CreateTask(arguments) THEN invalid
                 ELSE /\ create_task(build_CreateTask(arguments), ts)
                      /\ reply' = TextContent(name, arguments,
                                     <<"Task created successfully with ID: ", call'.ret[1].id>>)
          [] name = "task_get" ->
                 IF ~valid_id(arguments) THEN invalid
                 ELSE /\ get_task(arguments.id)
                      /\ reply' = TextContent(name, arguments,
                                     IF call'.ret = <<>> THEN <<"Task not found">>
                                     ELSE <<"json", call'.ret>>)
          [] name = "task_update" ->
                 IF ~valid_id(arguments) THEN invalid
                 ELSE /\ update_task(build_UpdateTask(arguments), ts)
                      /\ reply' = IF call'.raised # ""
                                  THEN handled(name, arguments, call'.raised)
                                  ELSE TextContent(name, arguments,
                                           <<"Task ", call'.ret[1].id, " updated successfully">>)
          [] name = "task_delete" ->
                 IF ~valid_id(arguments) THEN invalid
                 ELSE /\ delete_task(arguments.id)
                      /\ reply' = TextContent(name, arguments,
                                     IF call'.ok THEN <<"Task deleted successfully">>
                                     ELSE <<"Task not found">>)
          [] name = "task_list" ->
                 IF ~valid_ListTasks(arguments) THEN invalid
                 ELSE /\ list_tasks(build_ListTasks(arguments), today)
                      /\ reply' = IF call'.raised # ""
                                  THEN handled(name, arguments, call'.raised)
                                  ELSE TextContent(name, arguments, <<"json", call'.ret>>)
          [] OTHER ->
                 /\ reply' = handled(name, arguments, "ValueError")
                 /\ UNCHANGED <<store, call, assigned>>

\* ------------------------------------------------------ client processes
\* Two processes run the mutating operations of service.py one file access
\* at a time.  A process is idle (before its first call and after each
\* return), has built the Task of a create_task, or has loaded and changed
\* its task list and is about to save it.
Procs == {1, 2}

Idle == [pc |-> "idle", op |-> "none", req |-> [id |-> 0], task |-> <<>>, tasks |-> <<>>,
         ret |-> "none", calls |-> 0]

\* create_task up to the end of the Task(...) call, lines 85-94: next_id
\* loads the file and the new Task is built
create_task_build(p, data, ts) ==
    LET id == next_id(load_tasks)
    IN  /\ proc[p].pc = "idle"
        /\ proc[p].calls < MaxCalls
        /\ id <= MaxId
        /\ Len(load_tasks) < MaxTasks
        /\ proc' = [proc EXCEPT ![p] = [pc |-> "built", op |-> "create", req |-> data,
                                        task |-> <<Task(id, data, ts)>>, tasks |-> <<>>,
                                        ret |-> "none", calls |-> proc[p].calls + 1]]
        /\ assigned' = assigned \cup {id}
        /\ UNCHANGED <<store, call, reply>>

\* create_task lines 95-96: the second load and the append
create_task_load(p) ==
    /\ proc[p].pc = "built"
    /\ proc' = [proc EXCEPT ![p].pc = "loaded",
                            ![p].tasks = Append(load_tasks, proc[p].task[1])]
    /\ UNCHANGED <<store, call, assigned, reply>>

\* update_task lines 107-127: load, find, raise or change the loaded list
update_task_load(p, data, ts) ==
    LET tasks == load_tasks
        i     == find_task(tasks, data.id)
    IN  /\ proc[p].pc = "idle"
        /\ proc[p].calls < MaxCalls
        /\ proc' = [proc EXCEPT ![p] =
                       IF i = 0
                       THEN [pc |-> "idle", op |-> "update", req |-> data, task |-> <<>>,
                             tasks |-> <<>>, ret |-> "ValueError", calls |-> proc[p].calls + 1]
                       ELSE [pc |-> "loaded", op |-> "update", req |-> data, task |-> <<>>,
                             tasks |-> [tasks EXCEPT ![i] = apply_update(tasks[i], data, ts)],
                             ret |-> "none", calls |-> proc[p].calls + 1]]
        /\ UNCHANGED <<store, call, assigned, reply>>

\* delete_task lines 134-137: load, filter, return False when nothing went
delete_task_load(p, task_id) ==
    LET tasks    == load_tasks
        filtered == filtered_tasks(tasks, task_id)
    IN  /\ proc[p].pc = "idle"
        /\ proc[p].calls < MaxCalls
        /\ proc' = [proc EXCEPT ![p] =
                       IF Len(filtered) = Len(tasks)
                       THEN [pc |-> "idle", op |-> "delete", req |-> [id |-> task_id],
                             task |-> <<>>, tasks |-> <<>>, ret |-> "False",
                             calls |-> proc[p].calls + 1]
                       ELSE [pc |-> "loaded", op |-> "delete", req |-> [id |-> task_id],
                             task |-> <<>>, tasks |-> filtered, ret |-> "none",
                             calls |-> proc[p].calls + 1]]
        /\ UNCHANGED <<store, call, assigned, reply>>

\* mutant: a save that appends to what the file holds now
written_mut_merge(p) ==
    IF proc[p].op = "create" THEN Append(store, proc[p].task[1]) ELSE proc[p].tasks

\* what save_tasks(tasks) writes: the caller's list, lines 69-71
written(p) == proc[p].tasks

\* the save_tasks call that ends create_task, update_task and delete_task,
\* and the return
save_tasks(p) ==
    /\ proc[p].pc = "loaded"
    /\ store' = written(p)
    /\ proc' = [proc EXCEPT ![p].pc = "idle", ![p].ret = "ok"]
    /\ UNCHANGED <<call, assigned, reply>>

\* ------------------------------------------------------------------ inputs
\* Ids the requests name: every id a task can have, and one that none has.
Ids == 1 .. (MaxId + 1)

\* CreateTask requests: a bare one and one with every optional field set.
BareCreate == CreateTask(<<"a">>, None, None, None, None)

FullCreate ==
    CreateTask(<<"A", "b">>, Some(<<"b">>), Some(<<"x">>), Some(<<2024, 6, 11>>), Some("high"))

\* UpdateTask requests: {id, priority}, every field but status, and
\* {id, status}.
PriorityUpdate(id) == UpdateTask(id, None, None, None, None, Some("low"), None)

ContentUpdate(id) ==
    UpdateTask(id, Some(FullCreate.name), FullCreate.desc, FullCreate.tags,
               FullCreate.due_date, FullCreate.priority, None)

StatusUpdate(id, status) == UpdateTask(id, None, None, None, None, None, Some(status))

Statuses == {"active", "completed", "archived"}

\* ListTasks requests with the defaults of the schema (orderby "due-date",
\* limit 10) and a status.
StatusList(status) == ListTasks(None, None, None, status, None, "due-date", Some(DefaultLimit))

QueryDay == <<2024, 6, 10>>

\* -------------------------------------------------------- specification(s)
Init ==
    /\ store = <<>>
    /\ call = Returned("init", [id |-> 0], <<>>, TRUE, FALSE)
    /\ assigned = {}
    /\ reply = NoReply
    /\ proc = [p \in Procs |-> Idle]

\* Spec: the operations run one at a time on requests that vary the content
\* fields of the tasks; every clock reading is the same instant.
Create ==
    /\ \E data \in {BareCreate, FullCreate} : create_task(data, 1)
    /\ UNCHANGED <<reply, proc>>

Get == (\E id \in Ids : get_task(id)) /\ UNCHANGED <<reply, proc>>

Update ==
    /\ \E id \in Ids :
           \E data \in {PriorityUpdate(id), ContentUpdate(id), StatusUpdate(id, "completed")} :
               update_task(data, 1)
    /\ UNCHANGED <<reply, proc>>

Delete == (\E id \in Ids : delete_task(id)) /\ UNCHANGED <<reply, proc>>

List ==
    /\ \E status \in {None, Some("completed")} : list_tasks(StatusList(status), QueryDay)
    /\ UNCHANGED <<reply, proc>>

Next == Create \/ Get \/ Update \/ Delete \/ List

Spec == Init /\ [][Next]_vars

\* SpecStamp: the operations run one at a time on requests that vary the
\* status of the tasks; tasks are created at instant 1 and updated at
\* instant 1 or later.
Timestamps == {1, 2}

CreateAt == create_task(BareCreate, 1) /\ UNCHANGED <<reply, proc>>

UpdateStatus ==
    /\ \E id \in Ids : \E status \in Statuses : \E ts \in Timestamps :
           update_task(StatusUpdate(id, status), ts)
    /\ UNCHANGED <<reply, proc>>

NextStamp == CreateAt \/ Get \/ UpdateStatus \/ Delete

SpecStamp == Init /\ [][NextStamp]_vars

\* SpecPool: the query engine, get_task and delete_task on every data file
\* that holds a subset of a pool of tasks, in id order.
PoolTask(id, name, desc, tags, due_date, priority, status, completed_at) ==
    [ id |-> id, name |-> name, desc |-> desc, tags |-> tags, due_date |-> due_date,
      priority |-> priority, status |-> status, created_at |-> 1,
      completed_at |-> completed_at ]

Pool ==
    << PoolTask(1, <<"a">>, None, None, Some(<<2024, 6, 11>>), Some("high"), "active", None),
       PoolTask(2, <<"A", "b">>, Some(<<"b">>), Some(<<"x">>), None, Some("low"), "completed", Some(1)),
       PoolTask(3, <<"b">>, None, Some(<<"x", "y">>), Some(<<2024, 6, 10>>), None, "archived", None),
       PoolTask(4, <<"a", "b">>, Some(<<"A">>), None, None, None, "active", None),
       PoolTask(5, <<"b", "a">>, None, Some(<<"y">>), Some(<<2024, 6, 18>>), Some("medium"), "active", Some(1)) >>

PoolIds == 1 .. (Len(Pool) + 1)

PoolStores == { SelectSeq(Pool, LAMBDA t : t.id \in S) : S \in SUBSET (1 .. Len(Pool)) }

PoolFilters ==
    { ListTasks(None, None, priority, status, None, orderby, Some(DefaultLimit)) :
        priority \in {None, Some("high")},
        status \in {None, Some("")} \cup {Some(st) : st \in Statuses},
        orderby \in {"due-date", "priority"} }

InitPool ==
    /\ store \in PoolStores
    /\ call = Returned("init", [id |-> 0], <<>>, TRUE, FALSE)
    /\ assigned = {store[i].id : i \in 1 .. Len(store)}
    /\ reply = NoReply
    /\ proc = [p \in Procs |-> Idle]

PoolList ==
    /\ \E filters \in PoolFilters : list_tasks(filters, QueryDay)
    /\ UNCHANGED <<reply, proc>>

PoolGet == (\E id \in PoolIds : get_task(id)) /\ UNCHANGED <<reply, proc>>

PoolDelete == (\E id \in PoolIds : delete_task(id)) /\ UNCHANGED <<reply, proc>>

NextPool == PoolList \/ PoolGet \/ PoolDelete

SpecPool == InitPool /\ [][NextPool]_vars

\* SpecLimit: the query engine on data files of 11 or 12 tasks, more of them
\* active than the default limit, with the limits and sort keys varied.
BigTask(id, due_date, priority, status) ==
    [ id |-> id, name |-> <<"a">>, desc |-> None, tags |-> None, due_date |-> due_date,
      priority |-> priority, status |-> status, created_at |-> 1,
      completed_at |-> IF status = "completed" THEN Some(1) ELSE None ]

BigPool ==
    << BigTask(1, Some(<<2024, 6, 30>>), Some("low"), "active"),
       BigTask(2, None, None, "active"),
       BigTask(3, Some(<<2024, 6, 18>>), Some("high"), "active"),
       BigTask(4, Some(<<2024, 6, 18>>), Some("medium"), "active"),
       BigTask(5, Some(<<2024, 6, 11>>), Some("high"), "active"),
       BigTask(6, Some(<<2024, 6, 11>>), Some("high"), "completed"),
       BigTask(7, Some(<<>>), Some("medium"), "active"),
       BigTask(8, Some(<<2024, 6, 10>>), Some("low"), "active"),
       BigTask(9, Some(<<2024, 6, 11>>), None, "active"),
       BigTask(10, Some(<<2024, 7, 1>>), Some("medium"), "active"),
       BigTask(11, Some(<<2024, 6, 10>>), Some("high"), "active"),
       BigTask(12, Some(<<2024, 2, 29>>), Some("low"), "active") >>

BigStores ==
    { SelectSeq(BigPool, LAMBDA t : t.id \in S) :
        S \in { T \in SUBSET (1 .. Len(BigPool)) : Cardinality(T) >= Len(BigPool) - 1 } }

LimitFilters ==
    { ListTasks(None, None, None, None, None, orderby, limit) :
        orderby \in {"due-date", "priority", "id"},
        limit \in {None, Some(0), Some(1), Some(3), Some(DefaultLimit), Some(11), Some(20)} }

InitLimit ==
    /\ store \in BigStores
    /\ call = Returned("init", [id |-> 0], <<>>, TRUE, FALSE)
    /\ assigned = {store[i].id : i \in 1 .. Len(store)}
    /\ reply = NoReply
    /\ proc = [p \in Procs |-> Idle]

LimitList ==
    /\ \E filters \in LimitFilters : list_tasks(filters, QueryDay)
    /\ UNCHANGED <<reply, proc>>

NextLimit == LimitList

SpecLimit == InitLimit /\ [][NextLimit]_vars

\* SpecRange: the due-date range filter on a data file of dated and undated
\* tasks, for every query date of two years; the date does not change
\* during a run.
RangePool ==
    << BigTask(1, Some(<<2024, 6, 10>>), None, "active"),
       BigTask(2, Some(<<2024, 6, 11>>), None, "active"),
       BigTask(3, Some(<<2024, 6, 18>>), None, "active"),
       BigTask(4, None, None, "active"),
       BigTask(5, Some(<<2024, 2, 29>>), None, "active"),
       BigTask(6, Some(<<2024, 12, 31>>), None, "active"),
       BigTask(7, Some(<<2025, 1, 1>>), None, "active"),
       BigTask(8, Some(<<>>), None, "active"),
       BigTask(9, Some(<<2024, 7, 3>>), None, "active"),
       BigTask(10, Some(<<2025, 1, 31>>), None, "active") >>

RangeStores == {RangePool}

RangeDays ==
    { d \in {2024, 2025} \X (1 .. 12) \X (1 .. 31) : ValidDate(d) }

Ranges == {"all", "day", "week", "month", "year"}

RangeFilters ==
    { ListTasks(None, None, None, None, range, "due-date", Some(DefaultLimit)) :
        range \in {None} \cup {Some(r) : r \in Ranges} }

InitRange ==
    /\ store \in RangeStores
    /\ \E today \in RangeDays :
           call = [ op |-> "init", req |-> [id |-> 0], ret |-> <<>>, ok |-> TRUE,
                    raised |-> "", wrote |-> FALSE, today |-> today ]
    /\ assigned = {store[i].id : i \in 1 .. Len(store)}
    /\ reply = NoReply
    /\ proc = [p \in Procs |-> Idle]

RangeList ==
    /\ \E filters \in RangeFilters : list_tasks(filters, call.today)
    /\ UNCHANGED <<reply, proc>>

NextRange == RangeList

SpecRange == InitRange /\ [][NextRange]_vars

\* SpecServer: tool calls arrive at the protocol server one at a time, with
\* every tool name and one that is not a tool, and with argument dicts that
\* pass and that fail validation.
ToolNames == {"task_create", "task_get", "task_update", "task_delete", "task_list", "task_purge"}

Arguments ==
    { [name |-> <<"a">>],
      [name |-> <<"b">>, priority |-> "urgent", due_date |-> <<2024, 13, 1>>],
      [id |-> 1],
      [id |-> 2, status |-> "completed"],
      [orderby |-> "priority"],
      [orderby |-> "name"],
      [range |-> "week", status |-> "active"] }

ServerCall == \E name \in ToolNames : \E arguments \in Arguments :
                  call_tool(name, arguments, 1, QueryDay)

NextServer == ServerCall /\ UNCHANGED proc

SpecServer == Init /\ [][NextServer]_vars

\* SpecRace: starting from a data file of zero, one or two tasks, the two
\* processes run create_task, update_task and delete_task with their file
\* accesses interleaved in every order.
RaceStores ==
    { <<>>,
      <<Task(1, BareCreate, 1)>>,
      <<Task(1, BareCreate, 1), Task(2, FullCreate, 1)>> }

RaceIds == {1, 2}

InitRace ==
    /\ store \in RaceStores
    /\ call = Returned("init", [id |-> 0], <<>>, TRUE, FALSE)
    /\ assigned = {store[i].id : i \in 1 .. Len(store)}
    /\ reply = NoReply
    /\ proc = [p \in Procs |-> Idle]

RaceCreate == \E p \in Procs : create_task_build(p, BareCreate, 1)

RaceCreateLoad == \E p \in Procs : create_task_load(p)

RaceUpdate ==
    \E p \in Procs : \E id \in RaceIds :
        \E data \in {PriorityUpdate(id), StatusUpdate(id, "completed")} :
            update_task_load(p, data, 1)

RaceDelete == \E p \in Procs : \E id \in RaceIds : delete_task_load(p, id)

RaceSave == \E p \in Procs : save_tasks(p)

NextRace == RaceCreate \/ RaceCreateLoad \/ RaceUpdate \/ RaceDelete \/ RaceSave

SpecRace == InitRace /\ [][NextRace]_vars

\* ------------------------------------------------------------------ claims
StoreIds(tasks) == {tasks[i].id : i \in 1 .. Len(tasks)}

\* the position in `tasks` of the task with this id
PosOf(tasks, id) == CHOOSE i \in 1 .. Len(tasks) : tasks[i].id = id

\* C1: the id given to a newly created task differs from the id of every
\* task created earlier, including tasks that have since been deleted.
C1_NeverReused ==
    [][call'.op = "create" => call'.ret[1].id \notin assigned]_vars

\* C2: with operations run one at a time, no two tasks in the store have the
\* same id, a create in an empty store gives id 1, and every create gives
\* 1 + the largest id in the store.
C2_UniqueIds ==
    /\ [](\A i, j \in 1 .. Len(store) : i # j => store[i].id # store[j].id)
    /\ [][call'.op = "create" =>
            LET id == call'.ret[1].id
            IN  /\ store = <<>> => id = 1
                /\ \A k \in 1 .. Len(store) : store[k].id < id
                /\ store # <<>> => (id - 1) \in StoreIds(store)]_vars

C2_Witness ==
    /\ call.op = "create"
    /\ Len(store) = 2
    /\ store[1].id = 2
    /\ store[2].id = 3

\* C3: update of an existing task leaves every request field that is absent
\* from the request as it was, never changes id or created_at, leaves
\* completed_at alone when the request carries no status, and leaves every
\* other task and the order of the store unchanged.
C3_PartialUpdate ==
    [][(call'.op = "update" /\ call'.raised = "") =>
          LET d == call'.req
              i == PosOf(store, d.id)
          IN  /\ Len(store') = Len(store)
              /\ \A k \in 1 .. Len(store) : k # i => store'[k] = store[k]
              /\ store'[i].id = store[i].id
              /\ store'[i].created_at = store[i].created_at
              /\ d.name = None => store'[i].name = store[i].name
              /\ d.desc = None => store'[i].desc = store[i].desc
              /\ d.tags = None => store'[i].tags = store[i].tags
              /\ d.due_date = None => store'[i].due_date = store[i].due_date
              /\ d.priority = None => store'[i].priority = store[i].priority
              /\ d.status = None => store'[i].status = store[i].status
              /\ d.status = None => store'[i].completed_at = store[i].completed_at]_vars

C3_Witness ==
    /\ call.op = "update"
    /\ call.raised = ""
    /\ call.req = PriorityUpdate(2)
    /\ Len(store) = 2
    /\ store[1].id = 1
    /\ store[2].name = FullCreate.name
    /\ store[2].desc = FullCreate.desc
    /\ store[2].status = "completed"
    /\ store[2].priority = Some("low")

\* C4: update to completed sets completed_at when the task was not completed,
\* leaves it unchanged when the task was already completed, and an update of
\* a completed task to archived or active leaves completed_at unchanged.
C4_CompletionStamp ==
    [][(call'.op = "update" /\ call'.raised = "" /\ call'.req.status # None) =>
          LET d   == call'.req
              i   == PosOf(store, d.id)
              old == store[i]
              new == store'[i]
          IN  /\ (d.status[1] = "completed" /\ old.status # "completed") =>
                     (new.completed_at # None /\ new.completed_at[1] \in Timestamps)
              /\ (d.status[1] = "completed" /\ old.status = "completed") =>
                     new.completed_at = old.completed_at
              /\ (d.status[1] \in {"archived", "active"} /\ old.status = "completed") =>
                     (new.completed_at = old.completed_at /\ new.completed_at # None)]_vars

C4_Witness ==
    /\ call.op = "update"
    /\ call.raised = ""
    /\ call.req.status = Some("archived")
    /\ call.ret[1].status = "archived"
    /\ call.ret[1].completed_at = Some(2)

\* C5 (as claimed): once completed_at of a task has a value, no later
\* operation changes or clears it.
C5_SetOnce ==
    [][\A i \in 1 .. Len(store) : \A j \in 1 .. Len(store') :
          (store'[j].id = store[i].id /\ store[i].completed_at # None) =>
              store'[j].completed_at = store[i].completed_at]_vars

\* C5 (amended): completed_at of a task is never cleared, and once set it
\* changes only in an update that sets status to completed on a task whose
\* status is not completed at that moment.
C5_NeverCleared ==
    [][\A i \in 1 .. Len(store) : \A j \in 1 .. Len(store') :
          (store'[j].id = store[i].id /\ store[i].completed_at # None) =>
              /\ store'[j].completed_at # None
              /\ store'[j].completed_at # store[i].completed_at =>
                    /\ call'.op = "update"
                    /\ call'.req.id = store[i].id
                    /\ call'.req.status = Some("completed")
                    /\ store[i].status # "completed"]_vars

C5_Witness ==
    /\ call.op = "update"
    /\ call.raised = ""
    /\ call.req.status = Some("completed")
    /\ call.ret[1].created_at = 1
    /\ call.ret[1].completed_at = Some(2)
    /\ Len(store) = 2
    /\ \E k \in 1 .. 2 : store[k].status = "active" /\ store[k].completed_at = Some(1)

\* C6: update with an id that no task has raises the not-found error, writes
\* nothing and leaves the store unchanged, whatever else the request carries.
C6_UpdateNotFound ==
    [][(call'.op = "update" /\ call'.req.id \notin StoreIds(store)) =>
          /\ call'.raised = "ValueError"
          /\ ~call'.wrote
          /\ store' = store]_vars

C6_Witness ==
    /\ call.op = "update"
    /\ call.raised = "ValueError"
    /\ ~call.wrote
    /\ call.req.name # None
    /\ Len(store) = 2

\* C7: delete with an id that no task has returns false, writes nothing and
\* leaves the store as it was.
C7_DeleteNotFound ==
    [][(call'.op = "delete" /\ call'.req.id \notin StoreIds(store)) =>
          /\ call'.raised = ""
          /\ ~call'.ok
          /\ ~call'.wrote
          /\ store' = store]_vars

C7_Witness ==
    /\ call.op = "delete"
    /\ ~call.ok
    /\ ~call.wrote
    /\ Len(store) = 2
    /\ call.req.id \notin StoreIds(store)

\* C8: delete with the id of a task in the store returns true, leaves all
\* other tasks in the store unchanged and in the same order, and a get of
\* that id right after it returns not-found without an error.
C8_DeleteExisting ==
    [][/\ (call'.op = "delete" /\ call'.req.id \in StoreIds(store)) =>
            LET i == PosOf(store, call'.req.id)
            IN  /\ call'.ok
                /\ call'.raised = ""
                /\ call'.req.id \notin StoreIds(store')
                /\ store' = SubSeq(store, 1, i - 1) \o SubSeq(store, i + 1, Len(store))
       /\ (call.op = "delete" /\ call.ok /\ call'.op = "get"
              /\ call'.req.id = call.req.id) =>
            (call'.ret = <<>> /\ ~call'.ok /\ call'.raised = "")]_vars

C8_Witness ==
    /\ call.op = "delete"
    /\ call.ok
    /\ call.req.id = 3
    /\ Len(store) = 4
    /\ store[2].id = 2
    /\ store[3].id = 4

\* C9: create returns a task with an id no task in the store has, status
\* active, completed_at empty and the name, desc, tags, due_date and priority
\* of the request; the store afterwards is the previous store with that task
\* appended.
C9_Create ==
    [][call'.op = "create" =>
          LET t == call'.ret[1]
              d == call'.req
          IN  /\ Len(call'.ret) = 1
              /\ t.id \notin StoreIds(store)
              /\ t.status = "active"
              /\ t.completed_at = None
              /\ t.name = d.name
              /\ t.desc = d.desc
              /\ t.tags = d.tags
              /\ t.due_date = d.due_date
              /\ t.priority = d.priority
              /\ Len(store') = Len(store) + 1
              /\ SubSeq(store', 1, Len(store)) = store
              /\ store'[Len(store')] = t]_vars

C9_Witness ==
    /\ call.op = "create"
    /\ call.req = FullCreate
    /\ Len(store) = 2
    /\ store[2] = call.ret[1]
    /\ store[2].tags = FullCreate.tags
    /\ store[1].status = "completed"

\* C10: list without a status filter returns only active tasks, and list
\* with a status filter returns only tasks of exactly that status.
C10_StatusFilter ==
    (call.op = "list" /\ call.raised = "") =>
        \A k \in 1 .. Len(call.ret) :
            /\ \E i \in 1 .. Len(store) : store[i] = call.ret[k]
            /\ call.req.status \in {None, Some("")} => call.ret[k].status = "active"
            /\ call.req.status \notin {None, Some("")} =>
                   call.ret[k].status = call.req.status[1]

C10_Witness ==
    /\ call.op = "list"
    /\ call.raised = ""
    /\ call.req.status = None
    /\ Len(call.ret) = 3
    /\ \E i \in 1 .. Len(store) : store[i].status = "completed"
    /\ \E i \in 1 .. Len(store) : store[i].status = "archived"

\* the positions in the store of the tasks a list call with only a status
\* filter matches
Matching == {i \in 1 .. Len(store) : store[i].status = status_filter(call.req)}

\* a comes before b in the sorted sequence: smaller key, or equal key and
\* earlier in the store
Before(a, b, orderby) ==
    \/ sort_key(a, orderby) < sort_key(b, orderby)
    \/ (sort_key(a, orderby) = sort_key(b, orderby) /\ a.id < b.id)

\* the result of the last list call is the first n elements of the matching
\* tasks in sorted order
IsSortedPrefix(n) ==
    /\ Len(call.ret) = (IF n < Cardinality(Matching) THEN n ELSE Cardinality(Matching))
    /\ \A k \in 1 .. Len(call.ret) : \E i \in Matching : store[i] = call.ret[k]
    /\ \A k \in 1 .. Len(call.ret) - 1 : Before(call.ret[k], call.ret[k + 1], call.req.orderby)
    /\ \A i \in Matching :
           (\A k \in 1 .. Len(call.ret) : call.ret[k] # store[i]) =>
               \A k \in 1 .. Len(call.ret) : Before(call.ret[k], store[i], call.req.orderby)

\* C11: list with no explicit limit returns at most 10 tasks, and list with
\* an explicit limit N >= 1 returns exactly the first min(N, matching)
\* elements of the filtered and sorted sequence.
C11_Limit ==
    (call.op = "list" /\ call.raised = "") =>
        /\ call.req.limit \in {None, Some(10)} => (Len(call.ret) <= 10 /\ IsSortedPrefix(10))
        /\ (call.req.limit # None /\ call.req.limit[1] >= 1) => IsSortedPrefix(call.req.limit[1])

C11_Witness ==
    /\ call.op = "list"
    /\ call.raised = ""
    /\ call.req.limit = None
    /\ call.req.orderby = "due-date"
    /\ Cardinality(Matching) = 11
    /\ Len(call.ret) = 10
    /\ call.ret[1].id = 12
    /\ \A k \in 1 .. 10 : call.ret[k].id # 7

\* C12: list with the explicit limit 0 removes truncation: it returns every
\* task that passes the filters.
C12_LimitZeroUnbounded ==
    (call.op = "list" /\ call.raised = "" /\ call.req.limit = Some(0)) =>
        Len(call.ret) = Cardinality(Matching)

\* the positions of the tasks of the store that have a due date
Dated == {i \in 1 .. Len(store) : store[i].due_date # None /\ store[i].due_date[1] # <<>>}

DueOrdinal(i) == Ordinal(store[i].due_date[1])

\* the last day of today's month
MonthEnd(today) == <<today[1], today[2], DaysInMonth(today[1], today[2])>>

\* the positions of the tasks the last list call returned
Returned_positions == {i \in 1 .. Len(store) : \E k \in 1 .. Len(call.ret) : call.ret[k] = store[i]}

BucketsOf(i) ==
    {b \in {"day", "week", "month", "year"} :
        \E k \in 1 .. Len(range_filter(store, b, call.today)) :
            range_filter(store, b, call.today)[k] = store[i]}

\* C14: for every query date today and every due date d with
\* today <= d <= December 31 of today's year, exactly one of the buckets day,
\* week, month, year selects d.
C14_ExactlyOneBucket ==
    call.op = "list" =>
        \A i \in Dated :
            (Ordinal(call.today) <= DueOrdinal(i)
                /\ DueOrdinal(i) <= Ordinal(<<call.today[1], 12, 31>>)) =>
                    Cardinality(BucketsOf(i)) = 1

HasDue(t) == t.due_date # None /\ t.due_date[1] # <<>>

\* calendar order of two dates <<y, m, d>>
DateLE(a, b) ==
    \/ a[1] < b[1]
    \/ (a[1] = b[1] /\ a[2] < b[2])
    \/ (a[1] = b[1] /\ a[2] = b[2] /\ a[3] <= b[3])

PriorityRank(t) ==
    IF t.priority = Some("high") THEN 1
    ELSE IF t.priority = Some("medium") THEN 2
    ELSE IF t.priority = Some("low") THEN 3
    ELSE 4

\* a may come directly before b in a list ordered by orderby
InOrder(a, b, orderby) ==
    LET earlier == PosOf(store, a.id) < PosOf(store, b.id)
    IN  CASE orderby = "due-date" ->
                 /\ HasDue(b) => HasDue(a)
                 /\ (HasDue(a) /\ HasDue(b)) => DateLE(a.due_date[1], b.due_date[1])
                 /\ (HasDue(a) /\ HasDue(b) /\ a.due_date[1] = b.due_date[1]) => earlier
                 /\ (~HasDue(a) /\ ~HasDue(b)) => earlier
          [] orderby = "priority" ->
                 /\ PriorityRank(a) <= PriorityRank(b)
                 /\ PriorityRank(a) = PriorityRank(b) => earlier
          [] OTHER -> a.id < b.id

\* C16: the sequence list returns is ordered by the requested key (due
\* dates ascending with the tasks without one last; priority high, medium,
\* low, absent; id ascending) and tasks that tie on the key keep their order
\* from the store.
C16_StableOrder ==
    (call.op = "list" /\ call.raised = "") =>
        \A k \in 1 .. Len(call.ret) - 1 :
            InOrder(call.ret[k], call.ret[k + 1], call.req.orderby)

C16_Witness ==
    /\ call.op = "list"
    /\ call.raised = ""
    /\ call.req.orderby = "priority"
    /\ call.req.limit = Some(20)
    /\ Len(call.ret) = 11
    /\ call.ret[1].id = 3
    /\ call.ret[2].id = 5
    /\ call.ret[3].id = 11
    /\ call.ret[10].id = 2
    /\ call.ret[11].id = 9

\* C18: with operations run one at a time from an empty store, every task
\* whose status is completed has completed_at set, and completed_at of a
\* task becomes set only in an update that gives that task status completed.
C18_CompletedHasStamp ==
    /\ [](\A i \in 1 .. Len(store) :
              store[i].status = "completed" => store[i].completed_at # None)
    /\ [][\A j \in 1 .. Len(store') :
              store'[j].completed_at # None =>
                  \/ \E i \in 1 .. Len(store) :
                         store[i].id = store'[j].id /\ store[i].completed_at # None
                  \/ /\ call'.op = "update"
                     /\ call'.req.id = store'[j].id
                     /\ call'.req.status = Some("completed")]_vars

C18_Witness ==
    /\ call.op = "update"
    /\ call.raised = ""
    /\ Len(store) = 2
    /\ store[1].status = "completed"
    /\ store[1].completed_at = Some(2)
    /\ store[2].status = "archived"
    /\ store[2].completed_at = None

\* C15: every tool call handled by call_tool ends in a text result, no
\* exception escapes; an engine operation that raised, an unknown tool name,
\* arguments that fail validation and an update of an id that does not exist
\* all give an error text.
C15_NoEscape ==
    [][/\ reply'.kind = "text"
       /\ (call' # call /\ call'.raised # "") => reply'.text = <<"Error: ", call'.raised>>
       /\ reply'.name \notin {"task_create", "task_get", "task_update", "task_delete", "task_list"}
              => reply'.text[1] = "Error: "
       /\ (reply'.name \in {"task_get", "task_update", "task_delete"}
              /\ "id" \notin DOMAIN reply'.arguments) => reply'.text[1] = "Error: "
       /\ (reply'.name = "task_create" /\ "name" \notin DOMAIN reply'.arguments)
              => reply'.text[1] = "Error: "
       /\ (reply'.name = "task_update" /\ "id" \in DOMAIN reply'.arguments
              /\ reply'.arguments.id \notin StoreIds(store))
              => reply'.text = <<"Error: ", "ValueError">>]_vars

C15_Witness ==
    /\ reply.kind = "text"
    /\ reply.name = "task_list"
    /\ reply.text = <<"Error: ", "KeyError">>
    /\ call.op = "list"
    /\ call.raised = "KeyError"

\* C17: the mutating operations are not coordinated.  A save writes the list
\* its own process loaded and changed, whatever the file holds by then, so
\* when two operations both load before either saves, the later save
\* overwrites the earlier one: the earlier operation returned success and
\* has no effect in the store.
C17_LastWriterWins ==
    [][\A p \in Procs :
           (proc[p].pc = "loaded" /\ proc'[p].pc = "idle") => store' = proc[p].tasks]_vars

\* Both processes updated task 1 and returned success; the store holds the
\* priority process 2 set and not the completion process 1 set.
C17_Witness ==
    /\ proc[1].pc = "idle" /\ proc[1].op = "update" /\ proc[1].ret = "ok"
    /\ proc[1].req = StatusUpdate(1, "completed")
    /\ proc[2].pc = "idle" /\ proc[2].op = "update" /\ proc[2].ret = "ok"
    /\ proc[2].req = PriorityUpdate(1)
    /\ Len(store) = 1
    /\ store[1].id = 1
    /\ store[1].priority = Some("low")
    /\ store[1].status = "active"
    /\ store[1].completed_at = None

====
